---- MODULE Spec2Model ----
(***************************************************************************)
(* The Couchbase database plugin for Vault: one Couchbase instance (a      *)
(* couchbaseConnectionProducer plus a credentials producer) that the host  *)
(* calls from several goroutines, and the cluster it talks to.             *)
(*                                                                         *)
(* Every handler is split before c.Connection and before its UpsertUser,   *)
(* RemoveUser or cluster.Close call; the code between two such points is   *)
(* one atomic step, and the cluster decides the outcome of every outbound  *)
(* call.  A handler's arguments are drawn when it enters its critical      *)
(* section (a goroutine blocked in c.Lock() is an idle one whose entry is  *)
(* not enabled).  A goroutine that has set its return values stands at     *)
(* "unlock" (the deferred c.Unlock() has not run yet) and then goes back   *)
(* to "idle".  The field RawConfig, which Init assigns and nothing reads,  *)
(* and the constant Type() are left out.                                   *)
(*                                                                         *)
(* Spec is the instance under every input of the model; FairSpec adds weak *)
(* fairness of every goroutine that is inside a handler and draws the      *)
(* handler arguments from a subset of the inputs.                          *)
(***************************************************************************)
EXTENDS Naturals, Sequences, FiniteSets, TLC

\* ------------------------------------------------------------------ bounds
NumThreads == 2
MaxLeaked == 1

Threads == 1..NumThreads
\* the instance refers to at most two handles at a time: the cached one and
\* the one Connection is building
Handles == {1, 2}

\* --------------------------------------------------------------- constants
authDomain == "local"

\* error values: a Go error is the sequence of its wrapped messages, nil is <<>>
nil == <<>>
ErrEmptyCreationStatement == <<"empty creation statements">>
ErrNotInitialized == <<"connection has not been initialized">>
ErrConnectionStringEmpty == <<"connection_string cannot be empty">>
ErrUsernameEmpty == <<"username cannot be empty">>
ErrPasswordEmpty == <<"password cannot be empty">>
ErrNoRole == <<"at least one role should be given in creation statement">>
ErrRotateNotImplemented == <<"root credential rotation is not currently implemented in couchbase">>
Wrap(err, msg) == <<msg>> \o err

\* ------------------------------------------------------------------ inputs
\* conf map[string]interface{}: a function from the keys present to strings
GoodConf ==
    [connection_string |-> "couchbase://localhost", username |-> "admin",
     password |-> "password", bucket |-> "Test"]
Without(conf, key) == [k \in DOMAIN conf \ {key} |-> conf[k]]
Confs ==
    {GoodConf}
    \cup {[GoodConf EXCEPT ![k] = ""] : k \in {"connection_string", "username", "password"}}
    \cup {Without(GoodConf, "connection_string")}
EmptyConf == [k \in {} |-> ""]

\* a creation statement is a JSON text: either not well-formed, or an object whose
\* members are <<key, array of objects>> and whose objects are sequences of
\* <<key, string>> pairs
RoleObj(name, bucketKey, bucket) == << <<"role", name>>, <<bucketKey, bucket>> >>
StmtMalformed == [valid |-> FALSE, members |-> <<>>]
StmtEmptyRoles == [valid |-> TRUE, members |-> << <<"roles", <<>> >> >>]
StmtFullAccess ==
    [valid |-> TRUE,
     members |-> << <<"roles", << RoleObj("bucket_full_access", "bucket_name", "Test") >> >> >>]
\* two roles, the first with a key that is not a json tag of CbRole
StmtTwoRoles ==
    [valid |-> TRUE,
     members |-> << <<"roles", << RoleObj("bucket_admin", "resource_scope", "Products"),
                                  RoleObj("bucket_full_access", "bucket_name", "Test") >> >> >>]
\* an object without the member "roles"
StmtNoRolesKey == [valid |-> TRUE, members |-> << <<"role", <<>> >> >>]
StatementTexts == {StmtMalformed, StmtFullAccess, StmtTwoRoles}
\* dbplugin.Statements: the Creation list and the deprecated single-string field
NoStatement == <<>>
StatementsInputs ==
    {[Creation |-> <<>>, CreationStatements |-> NoStatement]}
    \cup {[Creation |-> <<s>>, CreationStatements |-> NoStatement] : s \in StatementTexts}
    \cup {[Creation |-> <<>>, CreationStatements |-> <<StmtNoRolesKey>>]}
    \cup {[Creation |-> <<StmtEmptyRoles, StmtFullAccess>>, CreationStatements |-> NoStatement]}
NoStatements == [Creation |-> <<>>, CreationStatements |-> NoStatement]

StaticUsernames == {"test-user"}
StaticPasswords == {"test-password", "new-password"}
\* SetCredentials is called with every statements input for the first password
\* and with the full-access statement for the password that replaces it
RotationInputs == {[Creation |-> <<StmtFullAccess>>, CreationStatements |-> NoStatement]}
GeneratedUsernames == {"v_test-user_test-role_x_1"}
GeneratedPasswords == {"A1a-generated"}
Usernames == StaticUsernames \cup GeneratedUsernames \cup {"nonexistent"}

NoArgs == [conf |-> EmptyConf, verify |-> FALSE, statements |-> NoStatements,
           username |-> "", password |-> ""]
NoRet == [err |-> nil, username |-> "", password |-> "", conf |-> EmptyConf, set |-> FALSE]

\* ------------------------------------------------------------------- state
VARIABLES
    ConnectionString, Username, Password, Bucket,  \* couchbaseConnectionProducer fields
    Initialized,
    cluster,          \* c.cluster: 0 is nil, else the handle gocb.Connect returned
    clusterManager,   \* c.clusterManager: 0 is nil, else the handle it was derived from
    mutex,            \* the embedded sync.Mutex: 0 is unlocked, else the holder
    pc, op, args,     \* per goroutine: position, handler, arguments
    ret,              \* per goroutine: the return values, once set
    calls,            \* per goroutine: the outbound calls the current handler has made
    pre,              \* per goroutine (history): Initialized when the handler entered, and
                      \* the identity its UpsertUser or RemoveUser call found stored
    conns,            \* the cluster: state of the handles the instance refers to
    leaked,           \* the cluster: open connections the instance no longer refers to
    users             \* the cluster: the identities of domain "local"

producer == <<ConnectionString, Username, Password, Bucket, Initialized>>
cache == <<cluster, clusterManager>>
vars == <<ConnectionString, Username, Password, Bucket, Initialized,
          cluster, clusterManager, mutex, pc, op, args, ret, calls, pre,
          conns, leaked, users>>

NoUser == [exists |-> FALSE, Name |-> "", Password |-> "", Roles |-> <<>>]
NoPre == [Initialized |-> FALSE, user |-> NoUser]

LockingOps == {"Init", "CreateUser", "SetCredentials", "RevokeUser", "Close"}
AcquiringOps == {"Init", "CreateUser", "SetCredentials", "RevokeUser"}

\* new(): a fresh instance; nobody has called anything; the cluster has no identity
Init ==
    /\ ConnectionString = "" /\ Username = "" /\ Password = "" /\ Bucket = ""
    /\ Initialized = FALSE
    /\ cluster = 0 /\ clusterManager = 0
    /\ mutex = 0
    /\ pc = [t \in Threads |-> "idle"]
    /\ op = [t \in Threads |-> "none"]
    /\ args = [t \in Threads |-> NoArgs]
    /\ ret = [t \in Threads |-> NoRet]
    /\ calls = [t \in Threads |-> {}]
    /\ pre = [t \in Threads |-> NoPre]
    /\ conns = [i \in Handles |-> "none"]
    /\ leaked = 0
    /\ users = [u \in Usernames |-> NoUser]

\* ----------------------------------------------------------------- helpers
\* a handle is "open" once its bucket is open and "closed" after cluster.Close;
\* a number no handle bears is "none"
FreeIds == {i \in Handles : conns[i] = "none"}
NewId == CHOOSE i \in FreeIds : \A j \in FreeIds : i <= j
\* the cached handle is open: assigning c.cluster anew leaves its connection open
CachedOpen == cluster # 0 /\ conns[cluster] = "open"
Found(t, username) == pre' = [pre EXCEPT ![t].user = users[username]]

\* return values are set; the deferred Unlock is still to run
Returns(t, r) ==
    /\ ret' = [ret EXCEPT ![t] = [r EXCEPT !.set = TRUE]]
    /\ pc' = [pc EXCEPT ![t] = "unlock"]
Fails(t, err) == Returns(t, [NoRet EXCEPT !.err = err])
Goes(t, label) ==
    /\ pc' = [pc EXCEPT ![t] = label]
    /\ ret' = ret
Outbound(t, call) == calls' = [calls EXCEPT ![t] = @ \cup {call}]

\* c.Lock()
CanLockNoWait(t) == TRUE
CanLock(t) == mutex = 0
Lock(t, o) ==
    /\ pc[t] = "idle"
    /\ CanLock(t)
    /\ (o \in AcquiringOps /\ CachedOpen) => leaked < MaxLeaked
    /\ mutex' = t
    /\ op' = [op EXCEPT ![t] = o]
    /\ pre' = [pre EXCEPT ![t] = [NoPre EXCEPT !.Initialized = Initialized]]

\* ---------------------------------------------------------- pure functions
\* mapstructure.WeakDecode(conf, c) for one tagged string field: a key that is
\* absent from the map leaves the field as it was
WeakDecodeKeepsOld(conf, key, old) == old
WeakDecode(conf, key, old) == IF key \in DOMAIN conf THEN conf[key] ELSE old

\* dbutil.StatementCompatibilityHelper: the deprecated single field, when set,
\* becomes the Creation list
StatementCompatibilityHelper(statements) ==
    IF Len(statements.CreationStatements) > 0
    THEN [statements EXCEPT !.Creation = statements.CreationStatements]
    ELSE statements

\* value of the last member named key in a sequence of <<key, value>> pairs
RECURSIVE Member(_, _, _)
Member(pairs, key, default) ==
    IF pairs = <<>> THEN default
    ELSE LET last == pairs[Len(pairs)] IN
         IF last[1] = key THEN last[2]
         ELSE Member(SubSeq(pairs, 1, Len(pairs) - 1), key, default)

\* json.Unmarshal([]byte(creationStatement), &cbStatement) with the json tags
\* of CbStatement and CbRole; members with other keys are ignored
Unmarshal(creationStatement) ==
    IF ~creationStatement.valid
    THEN [err |-> <<"invalid character">>, Roles |-> <<>>]
    ELSE LET array == Member(creationStatement.members, "roles", <<>>) IN
         [err |-> nil,
          Roles |-> [i \in 1..Len(array) |->
                        [Role |-> Member(array[i], "role", ""),
                         BucketName |-> Member(array[i], "bucket_name", "")]]]

\* CbRoles.ToGocbUserRoles
ToGocbUserRolesSwapped(roles) ==
    [i \in 1..Len(roles) |-> [Role |-> roles[i].BucketName, BucketName |-> roles[i].Role]]
RECURSIVE ToGocbUserRoles(_)
ToGocbUserRoles(roles) ==
    IF roles = <<>> THEN <<>>
    ELSE <<[Role |-> Head(roles).Role, BucketName |-> Head(roles).BucketName]>>
         \o ToGocbUserRoles(Tail(roles))

\* the gocb.UserSettings upsertUser builds
UserSettingsWrongPassword(username, password, roles) ==
    [Name |-> username, Password |-> username, Roles |-> ToGocbUserRoles(roles)]
UserSettings(username, password, roles) ==
    [Name |-> username, Password |-> password, Roles |-> ToGocbUserRoles(roles)]

\* ------------------------------------------------------------- the cluster
\* PUT of a user: the stored identity becomes the settings sent
ServerUpsert(store, domain, name, settings) ==
    [store EXCEPT ![name] = [exists |-> TRUE, Name |-> settings.Name,
                             Password |-> settings.Password, Roles |-> settings.Roles]]
\* DELETE of a user
ServerRemove(store, domain, name) == [store EXCEPT ![name] = NoUser]

\* --------------------------------------------------------------- handlers
\* Init: the three checks on the decoded fields
ValidateNoPassword(connectionString, username, password) ==
    IF Len(connectionString) = 0 THEN ErrConnectionStringEmpty
    ELSE IF Len(username) = 0 THEN ErrUsernameEmpty
    ELSE nil
Validate(connectionString, username, password) ==
    IF Len(connectionString) = 0 THEN ErrConnectionStringEmpty
    ELSE IF Len(username) = 0 THEN ErrUsernameEmpty
    ELSE IF Len(password) = 0 THEN ErrPasswordEmpty
    ELSE nil

\* couchbaseConnectionProducer.Init up to its first outbound call
InitEnter(t) ==
    /\ Lock(t, "Init")
    /\ \E conf \in Confs, verifyConnection \in BOOLEAN :
        LET cs == WeakDecode(conf, "connection_string", ConnectionString)
            un == WeakDecode(conf, "username", Username)
            pw == WeakDecode(conf, "password", Password)
            bk == WeakDecode(conf, "bucket", Bucket)
        IN  /\ args' = [args EXCEPT ![t] = [NoArgs EXCEPT !.conf = conf, !.verify = verifyConnection]]
            /\ ConnectionString' = cs /\ Username' = un /\ Password' = pw /\ Bucket' = bk
            /\ IF Validate(cs, un, pw) # nil
               THEN Fails(t, Validate(cs, un, pw)) /\ UNCHANGED Initialized
               ELSE /\ Initialized' = TRUE
                    /\ IF verifyConnection THEN Goes(t, "connect")
                       ELSE Returns(t, [NoRet EXCEPT !.conf = conf])
    /\ UNCHANGED <<cache, calls, conns, leaked, users>>

\* CreateUser and SetCredentials without the check of len(statements.Creation)
UpsertEnterNoCheck(t, o, inputs, usernames, passwords) ==
    /\ Lock(t, o)
    /\ \E statements \in inputs, username \in usernames, password \in passwords :
        args' = [args EXCEPT ![t] = [NoArgs EXCEPT !.statements = StatementCompatibilityHelper(statements),
                                                    !.username = username, !.password = password]]
    /\ Goes(t, "connect")
    /\ UNCHANGED <<producer, cache, calls, conns, leaked, users>>
\* CreateUser and SetCredentials up to the call of c.Connection
UpsertEnter(t, o, inputs, usernames, passwords) ==
    /\ Lock(t, o)
    /\ \E statements \in inputs, username \in usernames, password \in passwords :
        /\ args' = [args EXCEPT ![t] = [NoArgs EXCEPT !.statements = StatementCompatibilityHelper(statements),
                                                       !.username = username, !.password = password]]
        /\ IF Len(StatementCompatibilityHelper(statements).Creation) = 0
           THEN Fails(t, ErrEmptyCreationStatement)
           ELSE Goes(t, "connect")
    /\ UNCHANGED <<producer, cache, calls, conns, leaked, users>>
CreateUserEnter(t) == UpsertEnter(t, "CreateUser", StatementsInputs, {""}, {""})
SetCredentialsEnter(t) ==
    \/ UpsertEnter(t, "SetCredentials", StatementsInputs, StaticUsernames,
                   StaticPasswords \ {"new-password"})
    \/ UpsertEnter(t, "SetCredentials", RotationInputs, StaticUsernames, {"new-password"})

RevokeUserEnter(t) ==
    /\ Lock(t, "RevokeUser")
    /\ \E username \in Usernames :
        args' = [args EXCEPT ![t] = [NoArgs EXCEPT !.username = username]]
    /\ Goes(t, "connect")
    /\ UNCHANGED <<producer, cache, calls, conns, leaked, users>>

\* an error of c.Connection as the handler returns it
ConnectionError(t, err) ==
    IF op[t] = "Init" THEN Wrap(err, "error verifying connection") ELSE err
\* where a handler goes on after c.Connection has succeeded
AfterConnection(t) ==
    CASE op[t] = "Init" -> Returns(t, [NoRet EXCEPT !.conf = args[t].conf])
      [] op[t] = "RevokeUser" -> Goes(t, "remove")
      [] OTHER -> Goes(t, "upsert")

\* Connection: the guard !c.Initialized
NotInitializedNever == FALSE
NotInitialized == ~Initialized

\* Connection assigning c.cluster as soon as gocb.Connect has returned
ConnectionCachingEarly(t) ==
    /\ pc[t] = "connect" /\ Initialized
    /\ calls' = [calls EXCEPT ![t] = @ \cup {"Connect", "Authenticate"}]
    /\ cluster' = NewId
    /\ Fails(t, ConnectionError(t, <<"gocb.Authenticate">>))
    /\ UNCHANGED <<producer, clusterManager, mutex, op, args, pre, conns, leaked, users>>

\* Connection taking the mutex its caller already holds
ConnectionRelocking(t) ==
    /\ pc[t] = "connect"
    /\ CanLock(t)
    /\ mutex' = t
    /\ Fails(t, ConnectionError(t, ErrNotInitialized))
    /\ UNCHANGED <<producer, cache, op, args, calls, pre, conns, leaked, users>>

\* c.Connection(ctx): the Initialized check, gocb.Connect, the two timeouts,
\* cluster.Authenticate, cluster.OpenBucket, cluster.Manager and the two cached
\* fields.  The cluster decides how far it gets; when it returns an error its
\* local cluster goes out of scope without an open bucket.
Connection(t) ==
    /\ pc[t] = "connect"
    /\ IF NotInitialized
       THEN /\ Fails(t, ConnectionError(t, ErrNotInitialized))
            /\ UNCHANGED <<cache, calls, conns, leaked>>
       ELSE \E outcome \in {"Connect", "Authenticate", "OpenBucket", "ok"} :
            CASE outcome = "Connect" ->
                    /\ calls' = [calls EXCEPT ![t] = @ \cup {"Connect"}]
                    /\ Fails(t, ConnectionError(t, <<"gocb.Connect">>))
                    /\ UNCHANGED <<cache, conns, leaked>>
              [] outcome = "Authenticate" ->
                    /\ calls' = [calls EXCEPT ![t] = @ \cup {"Connect", "Authenticate"}]
                    /\ Fails(t, ConnectionError(t, <<"gocb.Authenticate">>))
                    /\ UNCHANGED <<cache, conns, leaked>>
              [] outcome = "OpenBucket" ->
                    /\ calls' = [calls EXCEPT ![t] = @ \cup {"Connect", "Authenticate", "OpenBucket"}]
                    /\ Fails(t, ConnectionError(t, Wrap(<<"gocb.OpenBucket">>, "could not open bucket")))
                    /\ UNCHANGED <<cache, conns, leaked>>
              [] OTHER ->
                    /\ calls' = [calls EXCEPT ![t] = @ \cup {"Connect", "Authenticate", "OpenBucket"}]
                    /\ conns' = [c \in Handles |-> IF c = NewId THEN "open" ELSE "none"]
                    /\ leaked' = IF CachedOpen THEN leaked + 1 ELSE leaked
                    /\ cluster' = NewId
                    /\ clusterManager' = NewId
                    /\ AfterConnection(t)
    /\ UNCHANGED <<producer, mutex, op, args, pre, users>>

\* upsertUser without its check of len(cbStatement.Roles)
upsertUserNoRoleCheck(t, creationStatement, username, password) ==
    LET cbStatement == Unmarshal(creationStatement) IN
    IF cbStatement.err # nil
    THEN /\ Fails(t, Wrap(cbStatement.err, "invalid creation statement"))
         /\ UNCHANGED <<calls, pre, users>>
    ELSE /\ Outbound(t, "UpsertUser")
         /\ Found(t, username)
         /\ users' = ServerUpsert(users, authDomain, username,
                                  UserSettings(username, password, cbStatement.Roles))
         /\ Returns(t, [NoRet EXCEPT !.username = username, !.password = password])

\* upsertUser(clusterManager, creationStatement, username, password)
upsertUser(t, creationStatement, username, password) ==
    LET cbStatement == Unmarshal(creationStatement) IN
    IF cbStatement.err # nil
    THEN /\ Fails(t, Wrap(cbStatement.err, "invalid creation statement"))
         /\ UNCHANGED <<calls, pre, users>>
    ELSE IF Len(cbStatement.Roles) = 0
    THEN /\ Fails(t, ErrNoRole)
         /\ UNCHANGED <<calls, pre, users>>
    ELSE /\ Outbound(t, "UpsertUser")
         /\ Found(t, username)
         /\ \E ok \in BOOLEAN :
             IF ok
             THEN /\ users' = ServerUpsert(users, authDomain, username,
                                           UserSettings(username, password, cbStatement.Roles))
                  /\ Returns(t, [NoRet EXCEPT !.username = username, !.password = password])
             ELSE /\ Fails(t, Wrap(<<"gocb.UpsertUser">>, "error when upserting user"))
                  /\ UNCHANGED users

\* CreateUser after c.Connection: GenerateUsername, GeneratePassword, upsertUser
CreateUserUpsert(t) ==
    /\ pc[t] = "upsert" /\ op[t] = "CreateUser"
    /\ \/ /\ Fails(t, <<"GenerateUsername">>)
          /\ UNCHANGED <<calls, pre, users>>
       \/ /\ Fails(t, <<"GeneratePassword">>)
          /\ UNCHANGED <<calls, pre, users>>
       \/ \E username \in GeneratedUsernames, password \in GeneratedPasswords :
            upsertUser(t, args[t].statements.Creation[1], username, password)
    /\ UNCHANGED <<producer, cache, mutex, op, args, conns, leaked>>

\* SetCredentials after c.Connection: upsertUser with the caller's credentials
SetCredentialsUpsert(t) ==
    /\ pc[t] = "upsert" /\ op[t] = "SetCredentials"
    /\ upsertUser(t, args[t].statements.Creation[1], args[t].username, args[t].password)
    /\ UNCHANGED <<producer, cache, mutex, op, args, conns, leaked>>

\* RevokeUser returning nil without asking the cluster
RemoveUserNoCall(t) ==
    /\ pc[t] = "remove"
    /\ Returns(t, NoRet)
    /\ UNCHANGED <<producer, cache, mutex, op, args, calls, pre, conns, leaked, users>>
\* RevokeUser dropping the error of RemoveUser
RemoveUserIgnoringError(t) ==
    /\ pc[t] = "remove"
    /\ Outbound(t, "RemoveUser")
    /\ Found(t, args[t].username)
    /\ \E ok \in BOOLEAN :
        IF ok /\ users[args[t].username].exists
        THEN users' = ServerRemove(users, authDomain, args[t].username)
        ELSE UNCHANGED users
    /\ Returns(t, NoRet)
    /\ UNCHANGED <<producer, cache, mutex, op, args, conns, leaked>>

\* RevokeUser after c.Connection: clusterManager.RemoveUser
RemoveUser(t) ==
    /\ pc[t] = "remove"
    /\ Outbound(t, "RemoveUser")
    /\ Found(t, args[t].username)
    /\ \E ok \in BOOLEAN :
        IF ok /\ users[args[t].username].exists
        THEN /\ users' = ServerRemove(users, authDomain, args[t].username)
             /\ Returns(t, NoRet)
        ELSE /\ Fails(t, IF users[args[t].username].exists
                         THEN <<"gocb.RemoveUser">> ELSE <<"Unknown user.">>)
             /\ UNCHANGED users
    /\ UNCHANGED <<producer, cache, mutex, op, args, conns, leaked>>

\* Close without c.Lock()
CloseEnterUnlocked(t) ==
    /\ pc[t] = "idle"
    /\ op' = [op EXCEPT ![t] = "Close"]
    /\ IF cluster # 0
       THEN Goes(t, "close") /\ UNCHANGED cluster
       ELSE cluster' = 0 /\ Returns(t, NoRet)
    /\ UNCHANGED <<producer, clusterManager, mutex, args, calls, pre, conns, leaked, users>>
\* Close up to cluster.Close
CloseEnter(t) ==
    /\ Lock(t, "Close")
    /\ IF cluster # 0
       THEN Goes(t, "close") /\ UNCHANGED cluster
       ELSE cluster' = 0 /\ Returns(t, NoRet)
    /\ UNCHANGED <<producer, clusterManager, args, calls, conns, leaked, users>>

\* Close that also marks the instance as not initialized
CloseClusterEndingSession(t) ==
    /\ pc[t] = "close"
    /\ Outbound(t, "Close")
    /\ conns' = [conns EXCEPT ![cluster] = "closed"]
    /\ cluster' = 0
    /\ Initialized' = FALSE
    /\ Returns(t, NoRet)
    /\ UNCHANGED <<ConnectionString, Username, Password, Bucket, clusterManager,
                   mutex, op, args, pre, leaked, users>>
\* Close: cluster.Close and what follows it
CloseCluster(t) ==
    /\ pc[t] = "close"
    /\ Outbound(t, "Close")
    /\ \E ok \in BOOLEAN :
        IF ok
        THEN /\ conns' = [conns EXCEPT ![cluster] = "closed"]
             /\ cluster' = 0
             /\ Returns(t, NoRet)
        ELSE /\ Fails(t, <<"gocb.Close">>)
             /\ UNCHANGED <<cluster, conns>>
    /\ UNCHANGED <<producer, clusterManager, mutex, op, args, pre, leaked, users>>

\* the deferred c.Unlock(); the handler has returned
Unlock(t) ==
    /\ pc[t] = "unlock"
    /\ mutex' = 0
    /\ pc' = [pc EXCEPT ![t] = "idle"]
    /\ op' = [op EXCEPT ![t] = "none"]
    /\ args' = [args EXCEPT ![t] = NoArgs]
    /\ ret' = [ret EXCEPT ![t] = NoRet]
    /\ calls' = [calls EXCEPT ![t] = {}]
    /\ pre' = [pre EXCEPT ![t] = NoPre]
    /\ UNCHANGED <<producer, cache, conns, leaked, users>>

\* handlers that take no lock: one step from the call to the return values
LockFree(t, o, r) ==
    /\ pc[t] = "idle"
    /\ pc' = [pc EXCEPT ![t] = "return"]
    /\ op' = [op EXCEPT ![t] = o]
    /\ ret' = [ret EXCEPT ![t] = [r EXCEPT !.set = TRUE]]
    /\ UNCHANGED <<producer, cache, mutex, calls, pre, conns, leaked, users>>
\* RenewUser taking the lock as the other handlers do
RenewUserLocking(t) ==
    /\ Lock(t, "RenewUser")
    /\ \E username \in StaticUsernames :
        args' = [args EXCEPT ![t] = [NoArgs EXCEPT !.username = username]]
    /\ Returns(t, NoRet)
    /\ UNCHANGED <<producer, cache, calls, conns, leaked, users>>
RenewUser(t) ==
    /\ \E username \in StaticUsernames :
        args' = [args EXCEPT ![t] = [NoArgs EXCEPT !.username = username]]
    /\ LockFree(t, "RenewUser", NoRet)
\* RotateRootCredentials answering with a configuration and no error
RotateRootCredentialsAccepting(t) ==
    /\ args' = args
    /\ LockFree(t, "RotateRootCredentials", [NoRet EXCEPT !.conf = GoodConf])
RotateRootCredentials(t) ==
    /\ args' = args
    /\ LockFree(t, "RotateRootCredentials", [NoRet EXCEPT !.err = ErrRotateNotImplemented])
\* a lock-free handler has returned
Return(t) ==
    /\ pc[t] = "return"
    /\ pc' = [pc EXCEPT ![t] = "idle"]
    /\ op' = [op EXCEPT ![t] = "none"]
    /\ args' = [args EXCEPT ![t] = NoArgs]
    /\ ret' = [ret EXCEPT ![t] = NoRet]
    /\ UNCHANGED <<producer, cache, mutex, calls, pre, conns, leaked, users>>

Next ==
    \E t \in Threads :
        \/ InitEnter(t)
        \/ CreateUserEnter(t)
        \/ SetCredentialsEnter(t)
        \/ RevokeUserEnter(t)
        \/ CloseEnter(t)
        \/ Connection(t)
        \/ CreateUserUpsert(t)
        \/ SetCredentialsUpsert(t)
        \/ RemoveUser(t)
        \/ CloseCluster(t)
        \/ Unlock(t)
        \/ RenewUser(t)
        \/ RotateRootCredentials(t)
        \/ Return(t)

Spec == Init /\ [][Next]_vars

\* a goroutine that is inside a handler takes its next step: the Go scheduler
\* runs every runnable goroutine, and every outbound call returns
Step(t) ==
    \/ Connection(t)
    \/ CreateUserUpsert(t)
    \/ SetCredentialsUpsert(t)
    \/ RemoveUser(t)
    \/ CloseCluster(t)
    \/ Unlock(t)
    \/ Return(t)
\* the fair specification draws the arguments of the handlers from a subset of
\* the inputs that still takes every return path: validation, not initialized,
\* connection, parse, no role, upsert, remove and success
FairInputs ==
    \A t \in Threads :
        /\ args[t].conf \in {EmptyConf, GoodConf, [GoodConf EXCEPT !["password"] = ""]}
        /\ args[t].statements.Creation \in
               {<<>>, <<StmtMalformed>>, <<StmtFullAccess>>, <<StmtEmptyRoles, StmtFullAccess>>}
        /\ args[t].username \in {""} \cup StaticUsernames
FairNext ==
    \E t \in Threads :
        \/ InitEnter(t) /\ FairInputs'
        \/ CreateUserEnter(t) /\ FairInputs'
        \/ SetCredentialsEnter(t) /\ FairInputs'
        \/ RevokeUserEnter(t) /\ FairInputs'
        \/ CloseEnter(t)
        \/ Connection(t)
        \/ CreateUserUpsert(t)
        \/ SetCredentialsUpsert(t)
        \/ RemoveUser(t)
        \/ CloseCluster(t)
        \/ Unlock(t)
        \/ RenewUser(t)
        \/ RotateRootCredentials(t)
        \/ Return(t)
FairSpec == Init /\ [][FairNext]_vars /\ \A t \in Threads : WF_vars(Step(t))

\* ------------------------------------------------------------------ claims
InCS(t) == pc[t] \in {"connect", "upsert", "remove", "close", "unlock"}
UpsertOps == {"CreateUser", "SetCredentials"}
FirstStatement(t) == args[t].statements.Creation[1]
ConnectionCalls == {"Connect", "Authenticate", "OpenBucket"}
SameRoles(stored, parsed) ==
    /\ Len(stored) = Len(parsed)
    /\ \A i \in 1..Len(parsed) :
        stored[i].Role = parsed[i].Role /\ stored[i].BucketName = parsed[i].BucketName

\* C1: at most one goroutine is between c.Lock() and the deferred c.Unlock() of
\* Init, CreateUser, SetCredentials, RevokeUser or Close, and while it is there,
\* outbound calls included, it is the holder of the mutex.
C1_MutualExclusion ==
    /\ \A t1, t2 \in Threads : InCS(t1) /\ InCS(t2) => t1 = t2
    /\ \A t \in Threads : InCS(t) => mutex = t /\ op[t] \in LockingOps
    /\ mutex # 0 => InCS(mutex)
C1_Witness ==
    \E t, u \in Threads :
        /\ t # u
        /\ pc[t] = "upsert" /\ "OpenBucket" \in calls[t] /\ mutex = t
        /\ pc[u] = "return"

\* C2: when CreateUser returns without error, the identity stored under the
\* returned username has the returned password and exactly the roles parsed from
\* the creation statement, in order, name and bucket preserved.
C2_CreateUserStoresIdentity ==
    \A t \in Threads :
        (pc[t] = "unlock" /\ op[t] = "CreateUser" /\ ret[t].err = nil) =>
            LET parsed == Unmarshal(FirstStatement(t)).Roles
                identity == users[ret[t].username]
            IN  /\ Len(parsed) >= 1
                /\ ret[t].username \in GeneratedUsernames
                /\ ret[t].password \in GeneratedPasswords
                /\ identity.exists
                /\ identity.Name = ret[t].username
                /\ identity.Password = ret[t].password
                /\ SameRoles(identity.Roles, parsed)
                /\ FirstStatement(t) = StmtFullAccess =>
                      identity.Roles = <<[Role |-> "bucket_full_access", BucketName |-> "Test"]>>
C2_Witness ==
    \E t \in Threads :
        /\ pc[t] = "unlock" /\ op[t] = "CreateUser" /\ ret[t].err = nil
        /\ FirstStatement(t) = StmtTwoRoles
        /\ Len(users[ret[t].username].Roles) = 2

\* C3: a CreateUser or SetCredentials whose creation statement is malformed or
\* decodes to no role never changes the identity store and issues no UpsertUser;
\* it returns an error with empty username and password, and once upsertUser is
\* reached that error is the parse error, respectively the no-role error.
BadStatement(s) == ~s.valid \/ Len(Unmarshal(s).Roles) = 0
StatementError(s) ==
    IF s.valid THEN ErrNoRole ELSE Wrap(<<"invalid character">>, "invalid creation statement")
C3_BadStatementRejected ==
    [][\A t \in Threads :
        (/\ op'[t] \in UpsertOps /\ pc'[t] # "idle"
         /\ Len(args'[t].statements.Creation) >= 1
         /\ BadStatement(args'[t].statements.Creation[1])) =>
            /\ users' = users
            /\ "UpsertUser" \notin calls'[t]
            /\ pc'[t] = "unlock" =>
                /\ ret'[t].err # nil /\ ret'[t].username = "" /\ ret'[t].password = ""
                /\ pc[t] = "upsert" =>
                    \/ ret'[t].err = StatementError(args'[t].statements.Creation[1])
                    \/ /\ op'[t] = "CreateUser"
                       /\ ret'[t].err \in {<<"GenerateUsername">>, <<"GeneratePassword">>}
      ]_vars
\* C3 as stated: whatever the state of the instance, such a call returns the
\* parse error, respectively the no-role error.
C3_AlwaysStatementError ==
    \A t \in Threads :
        (/\ pc[t] = "unlock" /\ op[t] \in UpsertOps
         /\ Len(args[t].statements.Creation) >= 1
         /\ BadStatement(FirstStatement(t))) =>
            /\ ret[t].err = StatementError(FirstStatement(t))
            /\ ret[t].username = "" /\ ret[t].password = ""
            /\ "UpsertUser" \notin calls[t]
C3_Witness ==
    \E t \in Threads :
        /\ pc[t] = "unlock" /\ op[t] = "SetCredentials"
        /\ args[t].statements.Creation = <<StmtEmptyRoles, StmtFullAccess>>
        /\ ret[t].err = ErrNoRole
        /\ calls[t] = ConnectionCalls
        /\ users[args[t].username].exists

\* C4: when SetCredentials returns without error, the identity stored under the
\* supplied username is exactly the one of this call: its password and its role
\* list replace whatever was stored under that username before.
C4_UpsertReplaces ==
    \A t \in Threads :
        (pc[t] = "unlock" /\ op[t] = "SetCredentials" /\ ret[t].err = nil) =>
            LET parsed == Unmarshal(FirstStatement(t)).Roles
                identity == users[args[t].username]
            IN  /\ ret[t].username = args[t].username
                /\ ret[t].password = args[t].password
                /\ identity.exists
                /\ identity.Name = args[t].username
                /\ identity.Password = args[t].password
                /\ SameRoles(identity.Roles, parsed)
C4_Witness ==
    \E t \in Threads :
        /\ pc[t] = "unlock" /\ op[t] = "SetCredentials" /\ ret[t].err = nil
        /\ pre[t].user.exists
        /\ pre[t].user.Password # args[t].password
        /\ Len(pre[t].user.Roles) = 2
        /\ Len(users[args[t].username].Roles) = 1

\* C5: a RevokeUser that returns without error leaves its username without an
\* identity and every other identity as it was; an absent identity appears only
\* through a successful upsert of that username.
C5_RevokeRemoves ==
    [][/\ \A t \in Threads :
            (pc[t] = "remove" /\ pc'[t] = "unlock" /\ ret'[t].err = nil) =>
                /\ ~users'[args[t].username].exists
                /\ \A v \in Usernames \ {args[t].username} : users'[v] = users[v]
       /\ \A u \in Usernames :
            (~users[u].exists /\ users'[u].exists) =>
                \E t \in Threads :
                    /\ pc[t] = "upsert" /\ pc'[t] = "unlock"
                    /\ ret'[t].err = nil /\ ret'[t].username = u
                    /\ "UpsertUser" \in calls'[t]
      ]_vars
C5_Witness ==
    \E t \in Threads :
        /\ pc[t] = "unlock" /\ op[t] = "RevokeUser" /\ ret[t].err = nil
        /\ pre[t].user.exists
        /\ ~users[args[t].username].exists
        /\ \E v \in Usernames : users[v].exists

\* C6: RevokeUser returns nil only if its RemoveUser call removed the identity;
\* when the call fails, as it does for a username without identity, RevokeUser
\* returns the error and the identity store is unchanged.
C6_RevokeReportsFailure ==
    [][\A t \in Threads :
        /\ (pc[t] = "remove" /\ pc'[t] = "unlock") =>
            /\ ~users[args[t].username].exists => ret'[t].err # nil
            /\ ret'[t].err # nil => users' = users
            /\ ret'[t].err = nil =>
                users[args[t].username].exists /\ ~users'[args[t].username].exists
        /\ (op'[t] = "RevokeUser" /\ pc'[t] = "unlock" /\ ret'[t].err = nil) =>
            "RemoveUser" \in calls'[t]
      ]_vars
C6_Witness ==
    \E t \in Threads :
        /\ pc[t] = "unlock" /\ op[t] = "RevokeUser"
        /\ args[t].username = "nonexistent"
        /\ "RemoveUser" \in calls[t]
        /\ ret[t].err = <<"Unknown user.">>

\* C7: while the instance is not initialized, a CreateUser or SetCredentials
\* with a creation statement and a RevokeUser make no outbound call, leave the
\* cached connection nil and return ErrNotInitialized.
C7_NotInitialized ==
    \A t \in Threads :
        (/\ op[t] \in UpsertOps \cup {"RevokeUser"} /\ pc[t] # "idle"
         /\ ~Initialized
         /\ op[t] \in UpsertOps => Len(args[t].statements.Creation) >= 1) =>
            /\ pc[t] \in {"connect", "unlock"}
            /\ calls[t] = {}
            /\ cluster = 0 /\ clusterManager = 0
            /\ pc[t] = "unlock" => ret[t].err = ErrNotInitialized
C7_Witness ==
    \E t \in Threads :
        /\ pc[t] = "unlock" /\ op[t] = "CreateUser" /\ ~Initialized
        /\ Len(args[t].statements.Creation) >= 1
        /\ ret[t].err = ErrNotInitialized

\* C8: an Init that entered on an uninitialized instance and returns an error
\* leaves the instance uninitialized.
C8_FailedInitStaysUninitialized ==
    \A t \in Threads :
        (pc[t] = "unlock" /\ op[t] = "Init" /\ ~pre[t].Initialized /\ ret[t].err # nil) =>
            ~Initialized

\* C9: an Init whose configuration supplies an empty connection_string, username
\* or password returns the matching validation error, whatever verifyConnection
\* is, without any outbound call.
Required == {"connection_string", "username", "password"}
SuppliesEmpty(conf) == \E k \in Required : k \in DOMAIN conf /\ conf[k] = ""
SuppliesAll(conf) == \A k \in Required : k \in DOMAIN conf /\ conf[k] # ""
C10_InitStoresConfiguration ==
    \A t \in Threads :
        (pc[t] = "unlock" /\ op[t] = "Init" /\ SuppliesAll(args[t].conf)) =>
            LET conf == args[t].conf IN
            /\ ret[t].err # nil =>
                /\ args[t].verify
                /\ "Connect" \in calls[t]
                /\ ret[t].err[1] = "error verifying connection"
            /\ ret[t].err = nil =>
                /\ ret[t].conf = conf
                /\ Initialized
                /\ ConnectionString = conf["connection_string"]
                /\ Username = conf["username"]
                /\ Password = conf["password"]
                /\ "bucket" \in DOMAIN conf => Bucket = conf["bucket"]
                /\ args[t].verify =>
                    /\ calls[t] = ConnectionCalls
                    /\ cluster # 0 /\ clusterManager = cluster
                    /\ conns[cluster] = "open"
C10_Witness ==
    \E t \in Threads :
        /\ pc[t] = "unlock" /\ op[t] = "Init" /\ ret[t].err = nil
        /\ args[t].verify
        /\ args[t].conf = GoodConf
        /\ cluster # 0 /\ Bucket = "Test"

\* C11: RenewUser returns nil in one step from every state, takes no lock, makes
\* no outbound call and leaves the configuration, the cached connection, the
\* cluster's connections and the identity store as they were.
C11_RenewUserFrame ==
    [][\A t \in Threads :
        (op'[t] = "RenewUser" /\ pc[t] = "idle") =>
            /\ pc'[t] = "return"
            /\ ret'[t].set /\ ret'[t].err = nil
            /\ mutex' = mutex
            /\ calls'[t] = {}
            /\ UNCHANGED <<producer, cache, conns, leaked, users>>
      ]_vars
C11_Witness ==
    \E t, u \in Threads :
        /\ pc[t] = "return" /\ op[t] = "RenewUser" /\ ret[t].err = nil
        /\ mutex = u /\ u # t /\ pc[u] = "remove"
        /\ ~users[args[t].username].exists

\* C12: RotateRootCredentials returns its error and no configuration in one
\* step from every state and leaves the stored configuration, the cached
\* connection, the cluster's connections and the identity store as they were.
C12_RotateRootFrame ==
    [][\A t \in Threads :
        (op'[t] = "RotateRootCredentials" /\ pc[t] = "idle") =>
            /\ pc'[t] = "return"
            /\ ret'[t].set /\ ret'[t].err = ErrRotateNotImplemented
            /\ ret'[t].conf = EmptyConf
            /\ mutex' = mutex
            /\ calls'[t] = {}
            /\ UNCHANGED <<producer, cache, conns, leaked, users>>
      ]_vars
C12_Witness ==
    \E t \in Threads :
        /\ pc[t] = "return" /\ op[t] = "RotateRootCredentials"
        /\ ret[t].err = ErrRotateNotImplemented
        /\ Initialized /\ CachedOpen
        /\ \E u \in Usernames : users[u].exists

\* C13: the connections the instance has opened and not closed, whether it still
\* refers to them or not, number zero or one.
OpenConnections == leaked + Cardinality({h \in Handles : conns[h] = "open"})
C13_AtMostOneOpen == OpenConnections <= 1

\* C14: when Close has set its return value, nil or the error of cluster.Close,
\* c.cluster is nil.
C14_CloseClears ==
    \A t \in Threads : (pc[t] = "unlock" /\ op[t] = "Close") => cluster = 0

\* C15: a c.Connection call that finds an open connection cached makes no
\* Connect, Authenticate or OpenBucket call and leaves the cached handles as
\* they are.
C15_CachedReused ==
    [][\A t \in Threads :
        (pc[t] = "connect" /\ CachedOpen) =>
            /\ calls'[t] \cap ConnectionCalls = calls[t] \cap ConnectionCalls
            /\ cache' = cache
      ]_vars

\* C16: Close leaves the instance initialized, and on an initialized instance
\* the c.Connection of CreateUser, SetCredentials and RevokeUser never returns
\* ErrNotInitialized: it connects, authenticates and opens the bucket anew, caches
\* a handle that is not the closed one together with its manager, and the
\* UpsertUser or RemoveUser that follows goes through that open handle.
UserOps == UpsertOps \cup {"RevokeUser"}
C16_CloseKeepsSession ==
    [][\A t \in Threads :
        /\ (op[t] = "Close" \/ op'[t] = "Close") => Initialized' = Initialized
        /\ (pc[t] = "connect" /\ op[t] \in UserOps /\ Initialized) =>
            /\ pc'[t] = "unlock" =>
                /\ ret'[t].err # nil /\ ret'[t].err # ErrNotInitialized
                /\ "Connect" \in calls'[t]
            /\ pc'[t] \in {"upsert", "remove"} =>
                /\ ConnectionCalls \subseteq calls'[t]
                /\ cluster' # 0 /\ conns[cluster'] = "none" /\ conns'[cluster'] = "open"
                /\ clusterManager' = cluster'
        /\ (pc[t] \in {"upsert", "remove"} /\ calls'[t] # calls[t]) =>
            /\ clusterManager # 0 /\ conns[clusterManager] = "open"
            /\ ConnectionCalls \subseteq calls[t]
      ]_vars
\* never leaked and yet at handle 2: handle 1 was closed by a Close before this
\* CreateUser connected
C16_Witness ==
    \E t \in Threads :
        /\ pc[t] = "unlock" /\ op[t] = "CreateUser" /\ ret[t].err = nil
        /\ "UpsertUser" \in calls[t]
        /\ leaked = 0 /\ cluster = 2 /\ clusterManager = 2
        /\ conns[2] = "open" /\ conns[1] = "none"

\* C17: a c.Connection that returns an error leaves c.cluster, c.clusterManager,
\* the cluster's connections and the identity store as they were, and its handler
\* returns the error without an UpsertUser or RemoveUser call; whatever happened
\* before, a c.Connection on an initialized instance starts with gocb.Connect.
C17_FailedAcquireKeepsNothing ==
    [][\A t \in Threads :
        /\ (pc[t] = "connect" /\ pc'[t] = "unlock" /\ ret'[t].err # nil) =>
            /\ cache' = cache
            /\ conns' = conns /\ leaked' = leaked
            /\ users' = users
            /\ calls'[t] \subseteq ConnectionCalls
            /\ ret'[t].username = "" /\ ret'[t].password = "" /\ ret'[t].conf = EmptyConf
        /\ (pc[t] = "connect" /\ pc'[t] # "connect" /\ Initialized) =>
            "Connect" \in calls'[t]
      ]_vars
C17_Witness ==
    \E t \in Threads :
        /\ pc[t] = "unlock" /\ op[t] = "SetCredentials"
        /\ ret[t].err = Wrap(<<"gocb.OpenBucket">>, "could not open bucket")
        /\ calls[t] = ConnectionCalls
        /\ CachedOpen /\ clusterManager = cluster

\* C18: while Close is between its c.Lock() and its return no other goroutine is
\* inside Init, CreateUser, SetCredentials or RevokeUser, and a goroutine about
\* to issue UpsertUser or RemoveUser does so through the cached manager of an
\* open connection.
C18_CloseNeverRaces ==
    \A t \in Threads :
        /\ (op[t] = "Close" /\ pc[t] # "idle") =>
            \A u \in Threads \ {t} : pc[u] \in {"idle", "return"}
        /\ pc[t] \in {"upsert", "remove"} =>
            /\ clusterManager # 0 /\ clusterManager = cluster
            /\ conns[clusterManager] = "open"
            /\ \A u \in Threads \ {t} : op[u] # "Close"
\* a RevokeUser in flight on the handle opened after a Close closed the first
C18_Witness ==
    \E t \in Threads :
        /\ pc[t] = "remove" /\ users[args[t].username].exists
        /\ leaked = 0 /\ cluster = 2 /\ conns[2] = "open"
        /\ \A u \in Threads \ {t} : pc[u] = "idle"

\* C19: a CreateUser or SetCredentials whose statements hold no creation
\* statement, the deprecated field included, returns ErrEmptyCreationStatement
\* in the step that took the lock, whatever the state of the instance: it makes
\* no outbound call and leaves the configuration, the cached connection, the
\* cluster's connections and the identity store as they were.
C19_EmptyStatementFirst ==
    [][\A t \in Threads :
        (/\ pc[t] = "idle" /\ op'[t] \in UpsertOps
         /\ Len(args'[t].statements.Creation) = 0) =>
            /\ pc'[t] = "unlock"
            /\ ret'[t].err = ErrEmptyCreationStatement
            /\ ret'[t].username = "" /\ ret'[t].password = ""
            /\ calls'[t] = {}
            /\ UNCHANGED <<producer, cache, conns, leaked, users>>
      ]_vars
C19_Witness ==
    \E t \in Threads :
        /\ pc[t] = "unlock" /\ op[t] = "CreateUser"
        /\ Len(args[t].statements.Creation) = 0
        /\ ret[t].err = ErrEmptyCreationStatement
        /\ ~Initialized

\* C20: an initialized instance has a non-empty connection string, username and
\* password stored.
C20_InitializedHasConfiguration ==
    Initialized => (ConnectionString # "" /\ Username # "" /\ Password # "")

\* C21: a goroutine holds the mutex exactly from its c.Lock() to its deferred
\* c.Unlock(), whatever it returns; while it holds it, its next step needs no
\* lock and is enabled, so no state is a deadlock; and when every goroutine
\* inside a handler keeps running, every handler returns (no goroutine stays
\* inside a handler for ever) and the mutex is free again and again.
C21_LockReleased ==
    /\ [](\A t \in Threads :
            /\ pc[t] # "idle" => ENABLED Step(t)
            /\ pc[t] \in {"idle", "return"} => mutex # t)
    /\ [][\A t \in Threads :
            /\ (mutex = t /\ mutex' # t) => (pc[t] = "unlock" /\ pc'[t] = "idle" /\ mutex' = 0)
            /\ (pc[t] = "unlock" /\ pc'[t] # "unlock") => (pc'[t] = "idle" /\ mutex' = 0)
            /\ (mutex # t /\ mutex' = t) => (mutex = 0 /\ pc[t] = "idle")
         ]_vars
    /\ \A t \in Threads : []<>(pc[t] = "idle")
    /\ []<>(mutex = 0)
\* RevokeUser returns the error of a failed RemoveUser and has not unlocked yet
C21_Witness ==
    \E t \in Threads :
        /\ pc[t] = "unlock" /\ op[t] = "RevokeUser" /\ mutex = t
        /\ ret[t].err = <<"gocb.RemoveUser">>
        /\ ConnectionCalls \subseteq calls[t]
====
